---- MODULE Spec2Model ----
(***************************************************************************)
(* hono-typeorm: the column auto-fill subsystem (global column policies,   *)
(* the lifecycle listener in its role-based and its buildColumn form) and  *)
(* the connection provisioner.                                             *)
(*                                                                         *)
(* JavaScript values are modelled as strings: Undef is `undefined`, Null   *)
(* is `null`, "Y"/"Alice"/"Bob" are values a caller supplies, "id_<n>" is  *)
(* what the sequential id generator returns and "Date(<t>)" is the Date    *)
(* built at clock instant t.  A function value is named by a string.       *)
(* A JavaScript object with optional keys is a TLA+ function whose DOMAIN  *)
(* is the set of keys that hold a value other than undefined.              *)
(***************************************************************************)
EXTENDS Integers, Sequences, FiniteSets, TLC

VARIABLES
  policy,     \* the three module-level policies of columns.ts
  now,        \* the wall clock read by `new Date()`
  idSeq,      \* the counter `id` behind the sequential id generator
  subscriber, \* which AutoFillValueSubscriber is registered: "role" | "build"
  event,      \* the lifecycle event handled last, before and after the handler
  nGenerated, \* history: completed inserts that had to generate their primary key
  row,        \* the stored row of the entity saved through the repository
  lastSet,    \* history: the policy setter called last, its argument, the policies before
  conn,       \* the connection provisioner's last call: inputs, merged config, DataSource
  app,        \* what the caller hands to createTypeormMiddleware: options or a DataSource
  made,       \* the results of the calls of createTypeormMiddleware, in order
  requests,   \* the requests that pass through typeormMiddleware
  storage     \* getMetadataArgsStorage().columns of the class being annotated

ormVars == <<app, made, requests>>

vars ==
  <<policy, now, idSeq, subscriber, event, nGenerated, row, lastSet, conn, ormVars,
    storage>>

----------------------------------------------------------------------------
(* Bounds of the model *)

MaxSetCalls == 2
MaxClock == 3
MaxId == 4
MaxCalls == 3
MaxColumns == 2

----------------------------------------------------------------------------
(* Values *)

Undef == "undefined"
Null == "null"

\* obj[key] in JavaScript: undefined when the key is absent
Get(obj, key) == IF key \in DOMAIN obj THEN obj[key] ELSE Undef

\* `id_${n}`
IdValue(n) == "id_" \o ToString(n)

\* the Date object of clock instant t
DateValue(t) == "Date(" \o ToString(t) \o ")"

----------------------------------------------------------------------------
(* Policy registry: columns.ts *)

TransformerKeys == {"generate", "to", "from"}

timeGlobalColumn ==
  [type |-> "varchar", length |-> 50,
   transformer |-> [generate |-> "newDate", to |-> "dateToISOString",
                    from |-> "newDateFromString"]]

primaryGlobalColumn ==
  [type |-> "varchar", length |-> 36,
   transformer |-> [generate |-> "throwSetPrimaryGlobalColumnFirst",
                    to |-> "identity", from |-> "identity"]]

userIdGlobalColumn ==
  [type |-> "varchar", length |-> 36,
   transformer |-> [generate |-> "throwUserIdGlobalColumnFirst",
                    to |-> "identity", from |-> "identity"]]

InitPolicy ==
  [primary |-> primaryGlobalColumn, userId |-> userIdGlobalColumn,
   time |-> timeGlobalColumn]

\* a plausible slip: the object replaced, as setTimeGlobalColumn does
AssignTransformerMembersWhole(cur, custom) ==
  IF "transformer" \in DOMAIN custom THEN custom.transformer ELSE cur

\* the field-by-field assignment of setPrimaryGlobalColumn / setUserIdGlobalColumn:
\* every member of custom.transformer that is not undefined overwrites its member
AssignTransformerMembers(cur, custom) ==
  IF "transformer" \in DOMAIN custom
  THEN [f \in DOMAIN cur \cup DOMAIN custom.transformer |->
          IF f \in DOMAIN custom.transformer THEN custom.transformer[f] ELSE cur[f]]
  ELSE cur

\* timeGlobalColumn.transformer = custom.transformer: the object is replaced
AssignTransformer(cur, custom) ==
  IF "transformer" \in DOMAIN custom THEN custom.transformer ELSE cur

AssignTypeAndLength(cur, custom, tr) ==
  [type |-> IF "type" \in DOMAIN custom THEN custom.type ELSE cur.type,
   length |-> IF "length" \in DOMAIN custom THEN custom.length ELSE cur.length,
   transformer |-> tr]

setTimeGlobalColumn(p, custom) ==
  [p EXCEPT !.time =
     AssignTypeAndLength(p.time, custom, AssignTransformer(p.time.transformer, custom))]

setPrimaryGlobalColumn(p, custom) ==
  [p EXCEPT !.primary =
     AssignTypeAndLength(p.primary, custom,
                         AssignTransformerMembers(p.primary.transformer, custom))]

setUserIdGlobalColumn(p, custom) ==
  [p EXCEPT !.userId =
     AssignTypeAndLength(p.userId, custom,
                         AssignTransformerMembers(p.userId.transformer, custom))]

\* Partial<CustomColumn>: any subset of the keys, the transformer itself partial
PartialTransformers(g, t, f) ==
  { [k \in ks |-> CASE k = "generate" -> g [] k = "to" -> t [] k = "from" -> f] :
      ks \in SUBSET TransformerKeys }

PartialColumns(type, length, transformers) ==
  UNION { { [k \in ks |-> CASE k = "type" -> type
                            [] k = "length" -> length
                            [] k = "transformer" -> tr] : tr \in transformers } :
          ks \in SUBSET {"type", "length", "transformer"} }

NoCall ==
  [setter |-> "none", custom |-> [k \in {} |-> Undef], before |-> InitPolicy,
   calls |-> 0]

----------------------------------------------------------------------------
(* Field annotation builders *)

\* { ...defaults, ...options }
Spread(defaults, options) ==
  [k \in DOMAIN defaults \cup DOMAIN options |->
     IF k \in DOMAIN options THEN options[k] ELSE defaults[k]]

NoOptions == [k \in {} |-> Undef]

\* the object pushed to getMetadataArgsStorage().columns
ColumnArgs(propertyName, options) ==
  [propertyName |-> propertyName, options |-> options]

\* the generate closure of a role decorator reads the policy when it is called
RoleTransformer(type, global) ==
  [kind |-> "object", type |-> type,
   generate |-> global \o ".transformer.generate",
   to |-> global \o ".transformer.to", from |-> global \o ".transformer.from"]

CreateAtColumn(p, propertyName, options) ==
  ColumnArgs(propertyName,
    Spread([type |-> p.time.type, length |-> p.time.length,
            transformer |-> RoleTransformer("createAtColumn", "timeGlobalColumn")],
           options))

UpdateAtColumn(p, propertyName, options) ==
  ColumnArgs(propertyName,
    Spread([type |-> p.time.type, length |-> p.time.length,
            transformer |-> RoleTransformer("updateAtColumn", "timeGlobalColumn")],
           options))

PrimaryColumn(p, propertyName, options) ==
  ColumnArgs(propertyName,
    Spread([type |-> p.primary.type, length |-> p.primary.length, primary |-> TRUE,
            transformer |-> RoleTransformer("primaryColumn", "primaryGlobalColumn")],
           options))

CreateIdColumn(p, propertyName, options) ==
  ColumnArgs(propertyName,
    Spread([type |-> p.userId.type, length |-> p.userId.length,
            transformer |-> RoleTransformer("createIdColumn", "userIdGlobalColumn")],
           options))

UpdateIdColumn(p, propertyName, options) ==
  ColumnArgs(propertyName,
    Spread([type |-> p.userId.type, length |-> p.userId.length,
            transformer |-> RoleTransformer("updateIdColumn", "userIdGlobalColumn")],
           options))

\* typeorm's own @Column(type, options)
Column(propertyName, options) ==
  ColumnArgs(propertyName, Spread([type |-> "varchar"], options))

\* a plausible slip: only the first of the two checks made
buildColumnChecksTriggerOnly(opts, propertyName) ==
  IF "generateTrigger" \in DOMAIN opts /\ "generate" \notin DOMAIN opts
  THEN [error |-> "generate is required when generateTrigger is set"]
  ELSE [error |-> "none",
        column |->
          ColumnArgs(propertyName,
            Spread([transformer |->
                      [k \in {"kind", "to", "from"}
                             \cup (DOMAIN opts \cap {"generateTrigger", "generate"}) |->
                         CASE k = "kind" -> "object"
                           [] k = "to" -> "opts.transformer.to"
                           [] k = "from" -> "opts.transformer.from"
                           [] OTHER -> opts[k]]],
                   IF "columnOptions" \in DOMAIN opts THEN opts.columnOptions
                                                     ELSE NoOptions))]

\* buildColumn(opts): "ok" with the column it registers, or the error it throws
buildColumn(opts, propertyName) ==
  IF "generateTrigger" \in DOMAIN opts /\ "generate" \notin DOMAIN opts
  THEN [error |-> "generate is required when generateTrigger is set"]
  ELSE IF "generate" \in DOMAIN opts /\ "generateTrigger" \notin DOMAIN opts
  THEN [error |-> "generateTrigger is required when generate is set"]
  ELSE [error |-> "none",
        column |->
          ColumnArgs(propertyName,
            Spread([transformer |->
                      [k \in {"kind", "to", "from"}
                             \cup (DOMAIN opts \cap {"generateTrigger", "generate"}) |->
                         CASE k = "kind" -> "object"
                           [] k = "to" -> "opts.transformer.to"
                           [] k = "from" -> "opts.transformer.from"
                           [] OTHER -> opts[k]]],
                   IF "columnOptions" \in DOMAIN opts THEN opts.columnOptions
                                                     ELSE NoOptions))]

----------------------------------------------------------------------------
(* Entity metadata, as the lifecycle events carry it *)

\* item.propertyName, item.transformer and membership of metadata.primaryColumns
ColumnMetadata(args) ==
  [propertyName |-> args.propertyName,
   isPrimary |-> "primary" \in DOMAIN args.options /\ args.options.primary,
   transformer |-> IF "transformer" \in DOMAIN args.options
                   THEN args.options.transformer
                   ELSE [kind |-> "undefined"]]

\* event.metadata: columns in declaration order, primaryColumns those flagged primary
EntityMetadata(columnArgs) ==
  LET cols == [i \in 1..Len(columnArgs) |-> ColumnMetadata(columnArgs[i])]
  IN  [columns |-> cols,
       primaryColumns |-> SelectSeq(cols, LAMBDA c : c.isPrimary)]

PropertyNames(metadata) ==
  { metadata.columns[i].propertyName : i \in 1..Len(metadata.columns) }

----------------------------------------------------------------------------
(* Generators *)

\* early binding, which the closures do not do: the generator of the policy as
\* it was when the module was loaded
ResolveGenerateAtLoad(p, fn) ==
  CASE fn = "timeGlobalColumn.transformer.generate" -> timeGlobalColumn.transformer.generate
    [] fn = "primaryGlobalColumn.transformer.generate" ->
         primaryGlobalColumn.transformer.generate
    [] fn = "userIdGlobalColumn.transformer.generate" ->
         userIdGlobalColumn.transformer.generate
    [] OTHER -> fn

\* the function a generate closure ends up calling: the closures of the role
\* decorators read the policy at call time
ResolveGenerate(p, fn) ==
  CASE fn = "timeGlobalColumn.transformer.generate" -> Get(p.time.transformer, "generate")
    [] fn = "primaryGlobalColumn.transformer.generate" -> Get(p.primary.transformer, "generate")
    [] fn = "userIdGlobalColumn.transformer.generate" -> Get(p.userId.transformer, "generate")
    [] OTHER -> fn

\* what an async function returns at once: the promise of the value it delivers
PromiseOf(value) == "Promise(" \o value \o ")"

\* one invocation: the value returned or the error thrown, and the id counter after it
Invoke(p, t, ids, fn) ==
  LET f == ResolveGenerate(p, fn) IN
  CASE f = "newDate" -> [error |-> "none", value |-> DateValue(t), idSeq |-> ids]
    [] f = "dayjs" -> [error |-> "none", value |-> "Dayjs(" \o ToString(t) \o ")", idSeq |-> ids]
    [] f = "nextId" -> [error |-> "none", value |-> IdValue(ids), idSeq |-> ids + 1]
    [] f = "currentUserId" -> [error |-> "none", value |-> "user_1", idSeq |-> ids]
    [] f = "returnX" -> [error |-> "none", value |-> "X", idSeq |-> ids]
    [] f = "fetchCurrentUserId" ->
         [error |-> "none", value |-> PromiseOf("user_1"), idSeq |-> ids]
    [] f = "throwNoSession" ->
         [error |-> "Error: no session", value |-> Undef, idSeq |-> ids]
    [] f = "throwSetPrimaryGlobalColumnFirst" ->
         [error |-> "Not implemented, please setPrimaryGlobalColumn first",
          value |-> Undef, idSeq |-> ids]
    [] f = "throwUserIdGlobalColumnFirst" ->
         [error |-> "Not implemented, please userIdGlobalColumn first",
          value |-> Undef, idSeq |-> ids]
    [] OTHER -> [error |-> "TypeError: generate is not a function",
                 value |-> Undef, idSeq |-> ids]

----------------------------------------------------------------------------
(* Lifecycle listener: AutoFillValueSubscriber, both forms *)

NoTransformer == [kind |-> "undefined"]

getCustomTransformer(transformer) ==
  IF transformer.kind = "undefined" THEN NoTransformer
  ELSE IF transformer.kind = "array" THEN NoTransformer
  ELSE IF "type" \notin DOMAIN transformer THEN NoTransformer
  ELSE transformer

getGenerator(transformer) ==
  IF transformer.kind = "undefined" THEN NoTransformer
  ELSE IF transformer.kind = "array" THEN NoTransformer
  ELSE IF "generateTrigger" \notin DOMAIN transformer THEN NoTransformer
  ELSE IF "generate" \notin DOMAIN transformer THEN NoTransformer
  ELSE transformer

\* a plausible slip: `!= null` in place of `!== undefined`
IsDefinedLoosely(entity, propertyName) ==
  Get(entity, propertyName) \notin {Undef, Null}

\* event.entity[item.propertyName] !== undefined
IsDefined(entity, propertyName) ==
  Get(entity, propertyName) # Undef

\* entity[propertyName] = value
SetProperty(entity, propertyName, value) ==
  [k \in DOMAIN entity \cup {propertyName} |->
     IF k = propertyName THEN value ELSE entity[k]]

\* a plausible slip: the generator's error caught and dropped
GenerateSwallowsError(st, item, fn) ==
  LET r == Invoke(policy, st.at, st.idSeq, fn) IN
  IF r.error # "none"
  THEN [st EXCEPT !.calls = Append(@, [propertyName |-> item.propertyName,
                                       returned |-> "<throws>"])]
  ELSE [st EXCEPT !.entity = SetProperty(@, item.propertyName, r.value),
                  !.idSeq = r.idSeq,
                  !.calls = Append(@, [propertyName |-> item.propertyName,
                                       returned |-> r.value])]

\* event.entity[item.propertyName] = <transformer>.generate(): a throw ends the handler
Generate(st, item, fn) ==
  LET r == Invoke(policy, st.at, st.idSeq, fn) IN
  IF r.error # "none"
  THEN [st EXCEPT !.error = r.error,
                  !.calls = Append(@, [propertyName |-> item.propertyName,
                                       returned |-> "<throws>"])]
  ELSE [st EXCEPT !.entity = SetProperty(@, item.propertyName, r.value),
                  !.idSeq = r.idSeq,
                  !.calls = Append(@, [propertyName |-> item.propertyName,
                                       returned |-> r.value])]

\* a plausible slip: the update roles left out of the insert handler
RoleInsertTypesCreateOnly == {"createAtColumn", "createIdColumn"}

\* a plausible slip: the actor roles left out of the insert handler
RoleInsertTypesTimeOnly == {"createAtColumn", "updateAtColumn"}

\* the customType tests of the role-based beforeInsert's first loop
RoleInsertTypes ==
  {"createAtColumn", "updateAtColumn", "createIdColumn", "updateIdColumn"}

\* a plausible slip: the create roles refilled on update
RoleUpdateTypesWithCreate ==
  {"updateAtColumn", "updateIdColumn", "createAtColumn"}

\* a plausible slip: the update timestamp refreshed on insert only
RoleUpdateTypesActorOnly == {"updateIdColumn"}

\* the customType tests of the role-based beforeUpdate
RoleUpdateTypes == {"updateAtColumn", "updateIdColumn"}

BuildInsertTriggers == {"create", "createAndUpdate"}

BuildUpdateTriggers == {"update", "createAndUpdate"}

\* columns.ts beforeInsert, body of the loop over event.metadata.columns
RoleInsertColumn(st, item) ==
  IF IsDefined(st.entity, item.propertyName) THEN st
  ELSE LET customTransformer == getCustomTransformer(item.transformer) IN
       IF customTransformer.kind = "undefined" THEN st
       ELSE IF customTransformer.type \in RoleInsertTypes
            THEN Generate(st, item, Get(customTransformer, "generate"))
            ELSE st

\* a plausible slip: generate() called once to test its result and again to assign it
RoleInsertPrimaryCallsTwice(st, item) ==
  IF IsDefined(st.entity, item.propertyName) THEN st
  ELSE LET customTransformer == getCustomTransformer(item.transformer) IN
       IF customTransformer.kind = "undefined" THEN st
       ELSE IF customTransformer.type = "primaryColumn"
            THEN Generate(Generate(st, item, Get(customTransformer, "generate")),
                          item, Get(customTransformer, "generate"))
            ELSE st

\* columns.ts beforeInsert, body of the loop over event.metadata.primaryColumns
RoleInsertPrimary(st, item) ==
  IF IsDefined(st.entity, item.propertyName) THEN st
  ELSE LET customTransformer == getCustomTransformer(item.transformer) IN
       IF customTransformer.kind = "undefined" THEN st
       ELSE IF customTransformer.type = "primaryColumn"
            THEN Generate(st, item, Get(customTransformer, "generate"))
            ELSE st

\* columns.ts beforeUpdate, body of the loop
RoleUpdateColumn(st, item) ==
  IF ~st.hasEntity THEN st
  ELSE IF IsDefined(st.entity, item.propertyName) THEN st
  ELSE LET customTransformer == getCustomTransformer(item.transformer) IN
       IF customTransformer.kind = "undefined" THEN st
       ELSE IF customTransformer.type \in RoleUpdateTypes
            THEN Generate(st, item, Get(customTransformer, "generate"))
            ELSE st

\* buildColumn form, beforeInsert, body of the loop over event.metadata.columns
BuildInsertColumn(st, item) ==
  IF IsDefined(st.entity, item.propertyName) THEN st
  ELSE LET generator == getGenerator(item.transformer) IN
       IF generator.kind = "undefined" THEN st
       ELSE IF generator.generateTrigger \in BuildInsertTriggers
            THEN Generate(st, item, generator.generate)
            ELSE st

\* buildColumn form, beforeInsert, body of the loop over event.metadata.primaryColumns:
\* the entity's current value is not looked at
BuildInsertPrimary(st, item) ==
  LET generator == getGenerator(item.transformer) IN
  IF generator.kind = "undefined" THEN st
  ELSE IF generator.generateTrigger \in BuildInsertTriggers
       THEN Generate(st, item, generator.generate)
       ELSE st

\* buildColumn form, beforeUpdate, body of the loop
BuildUpdateColumn(st, item) ==
  IF ~st.hasEntity THEN st
  ELSE IF IsDefined(st.entity, item.propertyName) THEN st
  ELSE LET generator == getGenerator(item.transformer) IN
       IF generator.kind = "undefined" THEN st
       ELSE IF generator.generateTrigger \in BuildUpdateTriggers
            THEN Generate(st, item, generator.generate)
            ELSE st

\* the conversion the commented-out lines would do
AfterLoadColumnConverts(st, item) ==
  IF ~IsDefined(st.entity, item.propertyName) THEN st
  ELSE [st EXCEPT !.entity = SetProperty(@, item.propertyName,
                                         "dayjs(" \o st.entity[item.propertyName] \o ")")]

\* the body of afterLoad's loop: nothing is left after the test
AfterLoadColumn(st, item) ==
  IF ~IsDefined(st.entity, item.propertyName) THEN st ELSE st

LoopBody(loop, st, item) ==
  CASE loop = "role.beforeInsert.columns" -> RoleInsertColumn(st, item)
    [] loop = "role.beforeInsert.primaryColumns" -> RoleInsertPrimary(st, item)
    [] loop = "role.beforeUpdate.columns" -> RoleUpdateColumn(st, item)
    [] loop = "build.beforeInsert.columns" -> BuildInsertColumn(st, item)
    [] loop = "build.beforeInsert.primaryColumns" -> BuildInsertPrimary(st, item)
    [] loop = "build.beforeUpdate.columns" -> BuildUpdateColumn(st, item)
    [] loop = "role.afterLoad.columns" -> AfterLoadColumn(st, item)
    [] loop = "build.afterLoad.columns" -> AfterLoadColumn(st, item)

\* for await (const item of items) { body }: in order, ended by the first throw
RECURSIVE ForAwait(_, _, _, _)
ForAwait(loop, st, items, i) ==
  IF i > Len(items) \/ st.error # "none" THEN st
  ELSE ForAwait(loop, LoopBody(loop, st, items[i]), items, i + 1)

\* the handler's run: the entity it mutates, the generator calls made, the id
\* counter, the error that ended it; `at` is the instant the clock shows
StartRun(hasEntity, entity, at) ==
  [hasEntity |-> hasEntity, entity |-> entity, calls |-> << >>,
   idSeq |-> idSeq, error |-> "none", at |-> at]

beforeInsert(which, metadata, entity, at) ==
  ForAwait(which \o ".beforeInsert.primaryColumns",
           ForAwait(which \o ".beforeInsert.columns",
                    StartRun(TRUE, entity, at), metadata.columns, 1),
           metadata.primaryColumns, 1)

beforeUpdate(which, metadata, hasEntity, entity, at) ==
  ForAwait(which \o ".beforeUpdate.columns",
           StartRun(hasEntity, entity, at), metadata.columns, 1)

\* afterLoad(entity, event): returns at once without an event; else a loop whose
\* body, past the `=== undefined` test, is commented out
afterLoad(which, metadata, entity, hasEvent, at) ==
  IF ~hasEvent THEN StartRun(TRUE, entity, at)
  ELSE ForAwait(which \o ".afterLoad.columns",
                StartRun(TRUE, entity, at), metadata.columns, 1)

----------------------------------------------------------------------------
(* Entity classes and the entities a caller hands to save / update *)

\* README: an entity that uses every role decorator
RoleUser ==
  << PrimaryColumn(InitPolicy, "id", NoOptions),
     Column("name", NoOptions),
     CreateAtColumn(InitPolicy, "createAt", NoOptions),
     UpdateAtColumn(InitPolicy, "updateAt", NoOptions),
     CreateIdColumn(InitPolicy, "createId", NoOptions),
     UpdateIdColumn(InitPolicy, "updateId", NoOptions) >>

\* an entity with a key of typeorm's own, a column with a transformer list,
\* and the role columns declared in another order
RoleLog ==
  << UpdateIdColumn(InitPolicy, "updateId", NoOptions),
     Column("id", [primary |-> TRUE]),
     Column("name", [transformer |-> [kind |-> "array"]]),
     UpdateAtColumn(InitPolicy, "updateAt", [length |-> 30]),
     CreateAtColumn(InitPolicy, "createAt", NoOptions) >>

\* column.test.ts: PrimarySnowflakeColumn, CreateAtColumn, UpdateAtColumn, User
PrimarySnowflakeColumn(propertyName, options) ==
  buildColumn([generateTrigger |-> "create", generate |-> "nextId",
               columnOptions |-> Spread([type |-> "varchar", length |-> 50,
                                         primary |-> TRUE], options)],
              propertyName).column

BuildCreateAtColumn(propertyName, options) ==
  buildColumn([generateTrigger |-> "create", generate |-> "newDate",
               transformer |-> "dateToISOString/newDateFromString",
               columnOptions |-> Spread([type |-> "varchar", length |-> 36], options)],
              propertyName).column

BuildUpdateAtColumn(propertyName, options) ==
  buildColumn([generateTrigger |-> "createAndUpdate", generate |-> "newDate",
               transformer |-> "dateToISOString/newDateFromString",
               columnOptions |-> Spread([type |-> "varchar", length |-> 36], options)],
              propertyName).column

BuildUser ==
  << PrimarySnowflakeColumn("id", NoOptions),
     Column("name", NoOptions),
     BuildCreateAtColumn("createAt", NoOptions),
     BuildUpdateAtColumn("updateAt", NoOptions) >>

\* custom fields: a fixed-string generator on create, a generator on update only,
\* a column built with neither trigger nor generator
BuildNote ==
  << Column("id", [primary |-> TRUE]),
     buildColumn([generateTrigger |-> "create", generate |-> "returnX"], "code").column,
     buildColumn([generateTrigger |-> "update", generate |-> "newDate"],
                 "touchedAt").column,
     buildColumn(NoOptions, "note").column >>

\* a role-based entity with one field built by buildColumn
RoleMixed ==
  << Column("id", [primary |-> TRUE]),
     buildColumn([generateTrigger |-> "create", generate |-> "returnX"], "code").column,
     CreateIdColumn(InitPolicy, "createId", NoOptions) >>

\* custom fields around one whose generator needs a session and throws without,
\* and one field annotated with a role decorator
BuildAudit ==
  << Column("id", [primary |-> TRUE]),
     buildColumn([generateTrigger |-> "create", generate |-> "returnX"], "code").column,
     buildColumn([generateTrigger |-> "createAndUpdate", generate |-> "throwNoSession"],
                 "owner").column,
     CreateAtColumn(InitPolicy, "createAt", NoOptions),
     BuildUpdateAtColumn("updateAt", NoOptions) >>

EntityClasses(which) ==
  IF which = "role" THEN {"RoleUser", "RoleLog", "RoleMixed"}
  ELSE {"BuildUser", "BuildNote", "BuildAudit"}

Metadata(class) ==
  CASE class = "RoleUser" -> EntityMetadata(RoleUser)
    [] class = "RoleLog" -> EntityMetadata(RoleLog)
    [] class = "BuildUser" -> EntityMetadata(BuildUser)
    [] class = "BuildNote" -> EntityMetadata(BuildNote)
    [] class = "RoleMixed" -> EntityMetadata(RoleMixed)
    [] class = "BuildAudit" -> EntityMetadata(BuildAudit)
    [] class = "Article" -> EntityMetadata(storage.columns)

\* what a caller may put in a field: a name, or null / a value of the caller's
CallerValues(propertyName) ==
  IF propertyName = "name" THEN {"Alice"} ELSE {Null, "Y"}

\* every object over the entity's properties: each one absent or caller-supplied;
\* and objects that carry a property `memo` that is no column
Entities(metadata) ==
  UNION { { e \in [ks -> {Null, "Y", "Alice"}] :
              \A k \in ks : e[k] \in CallerValues(k) } :
          ks \in SUBSET PropertyNames(metadata) }
  \cup { [memo |-> "Y"], [name |-> "Alice", memo |-> "Y"] }

\* entities as a query loads them: every column, or a selection of columns
LoadedEntities(metadata) ==
  { e \in Entities(metadata) :
      DOMAIN e = PropertyNames(metadata) \/ DOMAIN e \subseteq {"id", "name"} }

----------------------------------------------------------------------------
(* State machine *)

NoEntity == [k \in {} |-> Undef]

NoEvent ==
  [kind |-> "none", class |-> "none", hasEntity |-> FALSE, before |-> NoEntity,
   entity |-> NoEntity, calls |-> << >>, error |-> "none", policy |-> InitPolicy,
   idSeqBefore |-> 0, at |-> 0, rowBefore |-> NoEntity]

\* a rollback the handler does not do: a failed run leaving the entity as it came
HandledRolledBack(kind, class, hasEntity, entity, run) ==
  [kind |-> kind, class |-> class, hasEntity |-> hasEntity, before |-> entity,
   entity |-> IF run.error = "none" THEN run.entity ELSE entity,
   calls |-> run.calls, error |-> run.error,
   policy |-> policy, idSeqBefore |-> idSeq, at |-> run.at, rowBefore |-> row]

\* the event as handled: what it carried, what the handler left and did
Handled(kind, class, hasEntity, entity, run) ==
  [kind |-> kind, class |-> class, hasEntity |-> hasEntity, before |-> entity,
   entity |-> run.entity, calls |-> run.calls, error |-> run.error,
   policy |-> policy, idSeqBefore |-> idSeq, at |-> run.at, rowBefore |-> row]

\* the entity lacks a primary key whose generator is the sequential one
LacksSequentialKey(metadata, p, entity) ==
  \E i \in 1..Len(metadata.primaryColumns) :
    LET item == metadata.primaryColumns[i] IN
      /\ ResolveGenerate(p, Get(item.transformer, "generate")) = "nextId"
      /\ Get(entity, item.propertyName) = Undef

\* no decorator applied yet
NoDecorator ==
  [decorator |-> "none", opts |-> NoOptions, propertyName |-> "none",
   error |-> "none", before |-> << >>]

\* the column storage before any decorator of the class is applied; policyAt is
\* history: the policies as they were when each column was pushed
NoColumns == [columns |-> << >>, policyAt |-> << >>, last |-> NoDecorator]

\* the requests in flight at the same time
Requests == {"r1", "r2"}

\* a request the middleware has not seen yet
NoRequest ==
  [pc |-> "idle", middleware |-> 0, orm |-> Undef, ormAtNext |-> Undef,
   nextCalls |-> 0, next |-> "none", outcome |-> "pending"]

Init ==
  /\ policy = InitPolicy
  /\ now = 0
  /\ idSeq = 0
  /\ subscriber \in {"role", "build"}
  /\ event = NoEvent
  /\ nGenerated = 0
  /\ row = NoEntity
  /\ lastSet = NoCall
  /\ conn = [phase |-> "none"]
  /\ app = [mode |-> "none"]
  /\ made = << >>
  /\ requests = [r \in Requests |-> NoRequest]
  /\ storage = NoColumns

\* setPrimaryGlobalColumn({ transformer: { generate: () => `id_${id++}` } })
ConfigurePrimary ==
  /\ subscriber = "role"
  /\ event.kind = "none"
  /\ policy' = setPrimaryGlobalColumn(policy, [transformer |-> [generate |-> "nextId"]])
  /\ UNCHANGED <<now, idSeq, subscriber, event, nGenerated, row, lastSet, conn, ormVars, storage>>

\* setUserIdGlobalColumn({ transformer: { generate: () => currentUser.id } }), or
\* with a generator that looks the user up: async () => (await session()).userId
ConfigureUserId ==
  /\ subscriber = "role"
  /\ event.kind = "none"
  /\ \E generate \in {"currentUserId", "fetchCurrentUserId"} :
       policy' = setUserIdGlobalColumn(policy, [transformer |-> [generate |-> generate]])
  /\ UNCHANGED <<now, idSeq, subscriber, event, nGenerated, row, lastSet, conn, ormVars, storage>>

\* setTimeGlobalColumn({ transformer: { generate: dayjs, to, from } })
ConfigureTime ==
  /\ subscriber = "role"
  /\ event.kind = "none"
  /\ policy' = setTimeGlobalColumn(policy,
                  [transformer |-> [generate |-> "dayjs", to |-> "dayjsToISOString",
                                    from |-> "dayjsFromString"]])
  /\ UNCHANGED <<now, idSeq, subscriber, event, nGenerated, row, lastSet, conn, ormVars, storage>>

\* the mapping library raises beforeInsert for an entity handed to save
BeforeInsert ==
  /\ event.kind = "none"
  /\ \E class \in EntityClasses(subscriber) :
    \E entity \in Entities(Metadata(class)) :
      LET run == beforeInsert(subscriber, Metadata(class), entity, now) IN
        /\ run.idSeq <= MaxId
        /\ event' = Handled("insert", class, TRUE, entity, run)
        /\ idSeq' = run.idSeq
        /\ nGenerated' = IF run.error = "none"
                            /\ LacksSequentialKey(Metadata(class), policy, entity)
                         THEN nGenerated + 1 ELSE nGenerated
        /\ UNCHANGED <<policy, now, subscriber, row, lastSet, conn, ormVars, storage>>

\* the mapping library raises beforeUpdate, with the update's payload or with no entity
BeforeUpdate ==
  /\ event.kind = "none"
  /\ \E class \in EntityClasses(subscriber) :
    \E hasEntity \in BOOLEAN :
      \E entity \in IF hasEntity THEN Entities(Metadata(class)) ELSE {NoEntity} :
        LET run == beforeUpdate(subscriber, Metadata(class), hasEntity, entity, now) IN
          /\ run.idSeq <= MaxId
          /\ event' = Handled("update", class, hasEntity, entity, run)
          /\ idSeq' = run.idSeq
          /\ UNCHANGED <<policy, now, subscriber, nGenerated, row, lastSet, conn, ormVars, storage>>

\* the mapping library calls afterLoad for an entity it loaded, with the load
\* event or without
AfterLoad ==
  /\ event.kind = "none"
  /\ \E class \in EntityClasses(subscriber) :
       \E entity \in LoadedEntities(Metadata(class)) :
         \E hasEvent \in BOOLEAN :
           LET run == afterLoad(subscriber, Metadata(class), entity, hasEvent, now) IN
             /\ event' = Handled("load", class, hasEvent, entity, run)
             /\ idSeq' = run.idSeq
  /\ UNCHANGED <<policy, now, subscriber, nGenerated, row, lastSet, conn, ormVars,
                 storage>>

\* the lifecycle event is transient: one instance per operation, then dropped
Discard ==
  /\ event.kind # "none"
  /\ event' = NoEvent
  /\ UNCHANGED <<policy, now, idSeq, subscriber, nGenerated, row, lastSet, conn, ormVars, storage>>

Next ==
  \/ ConfigurePrimary
  \/ ConfigureUserId
  \/ ConfigureTime
  \/ BeforeInsert
  \/ BeforeUpdate
  \/ AfterLoad
  \/ Discard

Spec == Init /\ [][Next]_vars

----------------------------------------------------------------------------
(* The repository: save and update of one row, as the routes of the tests do *)

\* the class the routes store: User, in the form of the registered listener
UserClass == IF subscriber = "role" THEN "RoleUser" ELSE "BuildUser"

\* manager.save(User, { name: 'Alice', ... }): the caller may hand over timestamps
\* and actor ids
SavePayloads ==
  { [k \in {"name"} \cup ks |-> IF k = "name" THEN "Alice" ELSE "Y"] :
      ks \in SUBSET ({"createAt", "updateAt", "createId", "updateId"}
                       \cap PropertyNames(Metadata(UserClass))) }

\* repo.update(user.id, { name: 'Bob' }): the changed fields, the update timestamp
\* left out or handed over
UpdatePayloads ==
  { [k \in ks |-> IF k = "name" THEN "Bob" ELSE v] :
      ks \in SUBSET {"name", "updateAt"}, v \in {Null, "Y"} }

\* save: beforeInsert, then the insert of the entity as the handler left it;
\* a handler that throws fails the save and nothing is written
Save ==
  /\ row = NoEntity
  /\ \E entity \in SavePayloads :
       LET run == beforeInsert(subscriber, Metadata(UserClass), entity, now) IN
         /\ run.idSeq <= MaxId
         /\ event' = Handled("insert", UserClass, TRUE, entity, run)
         /\ idSeq' = run.idSeq
         /\ row' = IF run.error = "none" THEN run.entity ELSE row
         /\ nGenerated' = IF run.error = "none"
                             /\ LacksSequentialKey(Metadata(UserClass), policy, entity)
                          THEN nGenerated + 1 ELSE nGenerated
         /\ UNCHANGED <<policy, now, subscriber, lastSet, conn, ormVars, storage>>

\* the update route: find the row, wait (the clock moves on), update: beforeUpdate
\* on the payload, then the columns the payload defines are written over the row
Update ==
  /\ row # NoEntity
  /\ now < MaxClock
  /\ \E entity \in UpdatePayloads :
       LET run == beforeUpdate(subscriber, Metadata(UserClass), TRUE, entity, now + 1) IN
         /\ run.idSeq <= MaxId
         /\ now' = now + 1
         /\ event' = Handled("update", UserClass, TRUE, entity, run)
         /\ idSeq' = run.idSeq
         /\ row' = IF run.error = "none" THEN Spread(row, run.entity) ELSE row
         /\ UNCHANGED <<policy, subscriber, nGenerated, lastSet, conn, ormVars, storage>>

NextStore ==
  \/ ConfigurePrimary
  \/ ConfigureUserId
  \/ ConfigureTime
  \/ Save
  \/ Update

SpecStore == Init /\ [][NextStore]_vars

----------------------------------------------------------------------------
(* The policy setters called with every partial policy *)

\* what a caller may pass: a new type, a new length, new transform functions
Customs ==
  PartialColumns("timestamp", 100,
                 PartialTransformers("dayjs", "dayjsToISOString", "dayjsFromString"))

Called(setter, custom) ==
  [setter |-> setter, custom |-> custom, before |-> policy,
   calls |-> lastSet.calls + 1]

CallSetTimeGlobalColumn ==
  /\ lastSet.calls < MaxSetCalls
  /\ \E custom \in Customs :
       /\ policy' = setTimeGlobalColumn(policy, custom)
       /\ lastSet' = Called("time", custom)
  /\ UNCHANGED <<now, idSeq, subscriber, event, nGenerated, row, conn, ormVars, storage>>

CallSetPrimaryGlobalColumn ==
  /\ lastSet.calls < MaxSetCalls
  /\ \E custom \in Customs :
       /\ policy' = setPrimaryGlobalColumn(policy, custom)
       /\ lastSet' = Called("primary", custom)
  /\ UNCHANGED <<now, idSeq, subscriber, event, nGenerated, row, conn, ormVars, storage>>

CallSetUserIdGlobalColumn ==
  /\ lastSet.calls < MaxSetCalls
  /\ \E custom \in Customs :
       /\ policy' = setUserIdGlobalColumn(policy, custom)
       /\ lastSet' = Called("userId", custom)
  /\ UNCHANGED <<now, idSeq, subscriber, event, nGenerated, row, conn, ormVars, storage>>

NextPolicy ==
  \/ CallSetTimeGlobalColumn
  \/ CallSetPrimaryGlobalColumn
  \/ CallSetUserIdGlobalColumn

SpecPolicy == Init /\ [][NextPolicy]_vars

----------------------------------------------------------------------------
(* Connection provisioner: index.ts *)

\* v || undefined
OrUndefined(v) == IF v = "" THEN Undef ELSE v

\* Object.assign(target, source): every own key of source, a key that holds
\* undefined included, overwrites the target's
ObjectAssign(target, source) ==
  [k \in DOMAIN target \cup DOMAIN source |->
     IF k \in DOMAIN source THEN source[k] ELSE target[k]]

\* url?.startsWith(prefix)
startsWith(url, prefix) ==
  /\ url # Undef
  /\ Len(url) >= Len(prefix)
  /\ SubSeq(url, 1, Len(prefix)) = prefix

\* a plausible slip: the offset taken as the position of the first character kept
substringOneBased(url, start) == SubSeq(url, start, Len(url))

\* url.substring(start)
substring(url, start) == SubSeq(url, start + 1, Len(url))

\* a JavaScript boolean
Bool(b) == IF b THEN "true" ELSE "false"

\* the defaults read from process.env, overwritten by the options
MergedConfig(env, opts) ==
  ObjectAssign(
    [type |-> OrUndefined(Get(env, "DATABASE_TYPE")),
     url |-> OrUndefined(Get(env, "DATABASE_URL")),
     synchronize |-> Bool(Get(env, "DATABASE_SYNCHRONIZE") = "true")],
    opts)

\* the if (config.type === undefined) { ... } chain
InferType(config) ==
  IF config.type # Undef THEN config
  ELSE IF startsWith(Get(config, "url"), "postgresql://")
       THEN [config EXCEPT !.type = "postgres"]
  ELSE IF startsWith(Get(config, "url"), "mysql://")
       THEN [config EXCEPT !.type = "mysql"]
  ELSE IF startsWith(Get(config, "url"), "sqlite:")
       THEN [config EXCEPT !.type = "sqlite", !.url = substring(@, 7)]
  ELSE IF startsWith(Get(config, "url"), "better-sqlite3:")
       THEN [config EXCEPT !.type = "better-sqlite3", !.url = substring(@, 15)]
  ELSE IF startsWith(Get(config, "url"), "file:")
       THEN [config EXCEPT !.type = "sqlite", !.url = substring(@, 5)]
  ELSE config

\* [AutoFillValueSubscriber, ...config.subscribers]
Subscribers(config) ==
  IF "subscribers" \in DOMAIN config
  THEN <<"AutoFillValueSubscriber">> \o config.subscribers
  ELSE <<"AutoFillValueSubscriber">>

\* the options handed to new DataSource
DataSourceOptions(config, subscribers) ==
  [type |-> config.type,
   url |-> config.url,
   database |-> IF config.type \in {"sqlite", "better-sqlite3"} THEN config.url ELSE Undef,
   synchronize |-> config.synchronize,
   logging |-> IF "logLevel" \in DOMAIN config THEN config.logLevel
                                                ELSE <<"error", "warn">>,
   subscribers |-> subscribers]

getDataSourceInstance(env, opts) ==
  DataSourceOptions(InferType(MergedConfig(env, opts)),
                    Subscribers(MergedConfig(env, opts)))

\* connection strings and paths a deployment may configure
Urls ==
  {"postgresql://u:p@h/db", "mysql://u:p@h/db", "sqlite:./a.db",
   "better-sqlite3:./b.db", "better-sqlite3::memory:", "file:./c.db", "file:",
   "./data.db", ":memory:", "sqlite:sqlite:x", "postgres://u:p@h/db",
   "sqlite", "SQLITE:./a.db", "mysql:/h/db"}

\* process.env
Environments ==
  { [k \in ks |-> CASE k = "DATABASE_TYPE" -> t
                    [] k = "DATABASE_URL" -> "sqlite:./env.db"
                    [] k = "DATABASE_SYNCHRONIZE" -> y] :
      ks \in SUBSET {"DATABASE_TYPE", "DATABASE_URL", "DATABASE_SYNCHRONIZE"},
      t \in {"", "postgres"}, y \in {"true", "false", "1"} }

\* TypeormOpts: each key absent, present and undefined, or present with a value
Options ==
  { [k \in ks |-> CASE k = "type" -> t
                    [] k = "url" -> u
                    [] k = "synchronize" -> y
                    [] k = "subscribers" -> <<"S1", "S2">>] :
      ks \in SUBSET {"type", "url", "synchronize", "subscribers"},
      t \in {Undef, "mysql", "better-sqlite3"},
      u \in Urls \cup {Undef},
      y \in {Undef, Bool(TRUE), Bool(FALSE)} }

\* a call of getDataSourceInstance: its inputs, the merged config, the DataSource
GetDataSourceInstance ==
  /\ conn.phase = "none"
  /\ \E env \in Environments :
       \E opts \in Options :
         conn' = [phase |-> "built", env |-> env, opts |-> opts,
                  config |-> MergedConfig(env, opts),
                  options |-> getDataSourceInstance(env, opts)]
  /\ UNCHANGED <<policy, now, idSeq, subscriber, event, nGenerated, row, lastSet,
                 ormVars, storage>>

NextConn == GetDataSourceInstance

SpecConn == Init /\ [][NextConn]_vars

----------------------------------------------------------------------------
(* createTypeormMiddleware and typeormMiddleware: index.ts *)

AutoFill == "AutoFillValueSubscriber"

\* DataSourceOptions.subscribers is a MixedList: undefined, an array, or an object
\* that maps names to subscribers; items holds the subscribers in their order
NoSubscribers == [kind |-> "undefined", items |-> << >>]
ArrayOf(items) == [kind |-> "array", items |-> items]
MapOf(items) == [kind |-> "map", items |-> items]

\* Array.isArray
IsArray(v) == v.kind = "array"

\* what a caller's new DataSource({ subscribers }) may hold
SubscriberConfigs ==
  {NoSubscribers, ArrayOf(<< >>), ArrayOf(<<"S1">>), ArrayOf(<<"S1", "S2">>),
   ArrayOf(<<"S2", "S1">>), ArrayOf(<<AutoFill>>), MapOf(<<"S1", "S2">>)}

\* the options a caller passes, none at all (createTypeormMiddleware()) included
CallerOptions ==
  { [k \in ks |-> CASE k = "type" -> "better-sqlite3"
                    [] k = "url" -> u
                    [] k = "synchronize" -> Bool(TRUE)
                    [] k = "subscribers" -> subs] :
      ks \in SUBSET {"type", "url", "synchronize", "subscribers"},
      u \in {":memory:", "sqlite:./a.db"},
      subs \in {<< >>, <<"S1", "S2">>, <<"S2", "S1">>} }

\* the environment of the process that serves the requests
ProcessEnv == [DATABASE_URL |-> "sqlite:./env.db", DATABASE_SYNCHRONIZE |-> "true"]

\* a plausible repair that would make the call idempotent: a listener that is
\* already in front is not prepended again
PrependAutoFillOnce(subscribers) ==
  IF IsArray(subscribers) /\ Len(subscribers.items) > 0
       /\ subscribers.items[1] = AutoFill
  THEN subscribers
  ELSE ArrayOf(<<AutoFill>> \o (IF IsArray(subscribers) THEN subscribers.items
                                                         ELSE << >>))

\* [AutoFillValueSubscriber, ...(Array.isArray(subscribers) ? subscribers : [])]
PrependAutoFill(subscribers) ==
  ArrayOf(<<AutoFill>> \o (IF IsArray(subscribers) THEN subscribers.items ELSE << >>))

\* inst.setOptions({ subscribers }): the DataSource's options, changed in place
setOptions(ds, subscribers) == [ds EXCEPT !.subscribers = subscribers]

\* { ...opts, subscribers: [...(opts?.subscribers || [])] }
SpreadWithSubscribers(hasOpts, opts) ==
  LET given == IF hasOpts /\ "subscribers" \in DOMAIN opts THEN opts.subscribers
               ELSE << >>
      copy == [i \in 1..Len(given) |-> given[i]]
  IN  ObjectAssign(IF hasOpts THEN opts ELSE NoOptions, [subscribers |-> copy])

\* the caller builds what it is going to pass: nothing, an options object, or
\* its own DataSource
Prepare ==
  /\ app.mode = "none"
  /\ \/ app' = [mode |-> "options", hasOpts |-> FALSE, opts |-> NoOptions,
                given |-> NoOptions]
     \/ \E opts \in CallerOptions :
          app' = [mode |-> "options", hasOpts |-> TRUE, opts |-> opts, given |-> opts]
     \/ \E subscribers \in SubscriberConfigs :
          app' = [mode |-> "datasource", ds |-> [subscribers |-> subscribers],
                  given |-> subscribers]
  /\ UNCHANGED <<policy, now, idSeq, subscriber, event, nGenerated, row, lastSet, conn,
                 made, requests, storage>>

\* createTypeormMiddleware(opts): the pre-built DataSource gets the listener
\* prepended in place; options give a new DataSource
CreateTypeormMiddleware ==
  /\ app.mode # "none"
  /\ Len(made) < MaxCalls
  /\ IF app.mode = "datasource"
     THEN /\ app' = [app EXCEPT
                       !.ds = setOptions(@, PrependAutoFill(app.ds.subscribers))]
          /\ made' = Append(made, [orm |-> "ds", fresh |-> FALSE])
     ELSE /\ made' = Append(made,
                 [orm |-> "inst_" \o ToString(Len(made) + 1), fresh |-> TRUE,
                  options |-> getDataSourceInstance(ProcessEnv,
                                SpreadWithSubscribers(app.hasOpts, app.opts))])
          /\ UNCHANGED app
  /\ UNCHANGED <<policy, now, idSeq, subscriber, event, nGenerated, row, lastSet, conn,
                 requests, storage>>

\* the subscribers of the connection the i-th call returned as `orm`
SubscribersOf(i) ==
  IF made[i].fresh THEN made[i].options.subscribers ELSE app.ds.subscribers.items

\* a plausible slip: the next handler invoked before the connection is attached
NextBeforeSet(request, i, inst) ==
  [request EXCEPT !.pc = "next", !.middleware = i, !.ormAtNext = request.orm,
                  !.nextCalls = @ + 1, !.orm = inst]

\* c.set('orm', inst); await next(): up to the suspension at the await
SetThenNext(request, i, inst) ==
  [request EXCEPT !.pc = "next", !.middleware = i, !.orm = inst, !.ormAtNext = inst,
                  !.nextCalls = @ + 1]

\* a request enters the middleware the i-th call returned
MiddlewareEnter(r) ==
  /\ requests[r].pc = "idle"
  /\ \E i \in 1..Len(made) :
       requests' = [requests EXCEPT ![r] = SetThenNext(@, i, made[i].orm)]
  /\ UNCHANGED <<policy, now, idSeq, subscriber, event, nGenerated, row, lastSet, conn,
                 app, made, storage>>

\* the next handler of the chain completes, with a response or with an error
NextSettles(r) ==
  /\ requests[r].pc = "next"
  /\ \E result \in {"returned", "Error(downstream)", "QueryFailedError"} :
       requests' = [requests EXCEPT ![r].pc = "resume", ![r].next = result]
  /\ UNCHANGED <<policy, now, idSeq, subscriber, event, nGenerated, row, lastSet, conn,
                 app, made, storage>>

\* the await of the middleware resumes: the middleware returns, or the error of
\* the next handler leaves it as it is
MiddlewareSettles(r) ==
  /\ requests[r].pc = "resume"
  /\ requests' = [requests EXCEPT
                    ![r].pc = "done",
                    ![r].outcome = IF requests[r].next = "returned"
                                   THEN "fulfilled" ELSE requests[r].next]
  /\ UNCHANGED <<policy, now, idSeq, subscriber, event, nGenerated, row, lastSet, conn,
                 app, made, storage>>

NextOrm ==
  \/ Prepare
  \/ CreateTypeormMiddleware
  \/ \E r \in Requests : MiddlewareEnter(r)
  \/ \E r \in Requests : NextSettles(r)
  \/ \E r \in Requests : MiddlewareSettles(r)

SpecOrm == Init /\ [][NextOrm]_vars

----------------------------------------------------------------------------
(* buildColumn called and its decorator applied to the fields of a class *)

\* BuildColumnOptions: each of generateTrigger, generate and columnOptions
\* supplied or not
BuildColumnOptions ==
  { [k \in ks |-> CASE k = "generateTrigger" -> trigger
                    [] k = "generate" -> generate
                    [] k = "columnOptions" -> [primary |-> TRUE]] :
      ks \in SUBSET {"generateTrigger", "generate", "columnOptions"},
      trigger \in {"create", "update", "createAndUpdate"},
      generate \in {"returnX", "newDate"} }

\* @buildColumn(opts) on a field: buildColumn throws, or the decorator it
\* returns pushes one column
buildColumnDecorator(opts, propertyName) == buildColumn(opts, propertyName)

\* the fields of the class, in the order of their declaration
Fields == <<"code", "stamp", "note", "owner">>

\* the field whose decorator is evaluated next
NextField == Fields[Len(storage.columns) + 1]

\* the next field of a class is annotated with buildColumn(opts)
ApplyBuildColumn ==
  /\ Len(storage.columns) < MaxColumns
  /\ \E opts \in BuildColumnOptions :
       \E propertyName \in {NextField} :
         LET built == buildColumnDecorator(opts, propertyName) IN
           storage' =
             [columns |-> IF built.error = "none"
                          THEN Append(storage.columns, built.column)
                          ELSE storage.columns,
              policyAt |-> IF built.error = "none"
                           THEN Append(storage.policyAt, policy)
                           ELSE storage.policyAt,
              last |-> [decorator |-> "buildColumn", opts |-> opts,
                        propertyName |-> propertyName, error |-> built.error,
                        before |-> storage.columns]]
  /\ UNCHANGED <<policy, now, idSeq, subscriber, event, nGenerated, row, lastSet, conn,
                 ormVars>>

NextBuild == ApplyBuildColumn

SpecBuild == Init /\ [][NextBuild]_vars

----------------------------------------------------------------------------
(* A class annotated with role decorators while the setters are called *)

\* class Article { @PrimaryColumn() id; @CreateAtColumn() createAt;
\*                 @UpdateIdColumn() updateId; title }
ArticleDecorators == <<"PrimaryColumn", "CreateAtColumn", "UpdateIdColumn">>

ArticleFields == <<"id", "createAt", "updateId">>

\* the column a role decorator pushes, the policies being p
Decorate(decorator, p, propertyName) ==
  CASE decorator = "PrimaryColumn" -> PrimaryColumn(p, propertyName, NoOptions)
    [] decorator = "CreateAtColumn" -> CreateAtColumn(p, propertyName, NoOptions)
    [] decorator = "UpdateIdColumn" -> UpdateIdColumn(p, propertyName, NoOptions)

\* the next decorator of the class is evaluated
ApplyRoleDecorator ==
  /\ event.kind = "none"
  /\ storage.last.decorator # "buildColumn"
  /\ Len(storage.columns) < Len(ArticleDecorators)
  /\ LET n == Len(storage.columns) + 1 IN
       storage' =
         [columns |-> Append(storage.columns,
                             Decorate(ArticleDecorators[n], policy, ArticleFields[n])),
          policyAt |-> Append(storage.policyAt, policy),
          last |-> [decorator |-> ArticleDecorators[n], opts |-> NoOptions,
                    propertyName |-> ArticleFields[n], error |-> "none",
                    before |-> storage.columns]]
  /\ UNCHANGED <<policy, now, idSeq, subscriber, event, nGenerated, row, lastSet, conn,
                 ormVars>>

\* what the application passes to a setter: a storage type and length, or
\* transform functions
LateCustoms(setter) ==
  {[type |-> "timestamp", length |-> 100],
   [transformer |->
      CASE setter = "time" -> [generate |-> "dayjs", to |-> "dayjsToISOString",
                               from |-> "dayjsFromString"]
        [] setter = "primary" -> [generate |-> "returnX"]
        [] setter = "userId" -> [generate |-> "currentUserId"]]}

\* a setter is called, before, between or after the decorators and the events
SetGlobalColumn ==
  /\ event.kind = "none"
  /\ lastSet.calls < MaxSetCalls
  /\ \E setter \in {"time", "primary", "userId"} :
       \E custom \in LateCustoms(setter) :
         /\ policy' = CASE setter = "time" -> setTimeGlobalColumn(policy, custom)
                        [] setter = "primary" -> setPrimaryGlobalColumn(policy, custom)
                        [] setter = "userId" -> setUserIdGlobalColumn(policy, custom)
         /\ lastSet' = Called(setter, custom)
  /\ UNCHANGED <<now, idSeq, subscriber, event, nGenerated, row, conn, ormVars, storage>>

\* the entities of the class handed to insert and update
ArticleEntities ==
  { [k \in {"title"} \cup ks |-> IF k = "title" THEN "Alice" ELSE "Y"] :
      ks \in SUBSET {"id", "createAt", "updateId"} }

\* an insert or an update of the class, once its decorators are evaluated
ArticleEvent ==
  /\ event.kind = "none"
  /\ subscriber = "role"
  /\ Len(storage.columns) = Len(ArticleDecorators)
  /\ \E entity \in ArticleEntities :
       \/ LET run == beforeInsert("role", Metadata("Article"), entity, now) IN
            /\ event' = Handled("insert", "Article", TRUE, entity, run)
            /\ idSeq' = run.idSeq
       \/ LET run == beforeUpdate("role", Metadata("Article"), TRUE, entity, now) IN
            /\ event' = Handled("update", "Article", TRUE, entity, run)
            /\ idSeq' = run.idSeq
  /\ UNCHANGED <<policy, now, subscriber, nGenerated, row, lastSet, conn, ormVars,
                 storage>>

NextLate ==
  \/ ApplyRoleDecorator
  \/ SetGlobalColumn
  \/ ArticleEvent
  \/ Discard

SpecLate == Init /\ [][NextLate]_vars

----------------------------------------------------------------------------
(* Vocabulary of the properties *)

Roles ==
  {"primaryColumn", "createAtColumn", "updateAtColumn", "createIdColumn",
   "updateIdColumn"}

\* the columns of the entity class of the event at hand
EventColumns ==
  IF event.kind = "none" THEN << >> ELSE Metadata(event.class).columns

\* the role marker of a column, "none" without one
RoleOf(item) ==
  IF item.transformer.kind = "object" /\ "type" \in DOMAIN item.transformer
  THEN item.transformer.type ELSE "none"

\* the trigger of a column built by buildColumn with trigger and generator
TriggerOf(item) ==
  IF /\ item.transformer.kind = "object"
     /\ "generateTrigger" \in DOMAIN item.transformer
     /\ "generate" \in DOMAIN item.transformer
  THEN item.transformer.generateTrigger ELSE "none"

\* the generator calls the handler made for one field
CallsFor(propertyName) ==
  SelectSeq(event.calls, LAMBDA c : c.propertyName = propertyName)

WasUnset(propertyName) == Get(event.before, propertyName) = Undef

\* the field was left exactly as the caller handed it over
Untouched(propertyName) ==
  /\ Get(event.entity, propertyName) = Get(event.before, propertyName)
  /\ (propertyName \in DOMAIN event.entity) = (propertyName \in DOMAIN event.before)

\* the generator ran once for the field and the field holds what it returned
FilledOnce(propertyName) ==
  /\ Len(CallsFor(propertyName)) = 1
  /\ Get(event.entity, propertyName) = CallsFor(propertyName)[1].returned
  /\ CallsFor(propertyName)[1].returned # "<throws>"

\* the n-th value `id_${id++}` produces, id starting at 0
NthId(n) == IdValue(n - 1)

----------------------------------------------------------------------------
(* C1 - C6, C9: the lifecycle listener *)

\* C1: role-based listener, pre-insert and pre-update: a role field that holds
\* anything but undefined (null included) when the event is handled holds the
\* same value afterwards, and its generator was not invoked.
C1_RoleCallerValueWins ==
  (subscriber = "role" /\ event.kind \in {"insert", "update"} /\ event.hasEntity) =>
    \A i \in 1..Len(EventColumns) :
      LET item == EventColumns[i] IN
        (RoleOf(item) \in Roles /\ ~WasUnset(item.propertyName)) =>
          /\ Untouched(item.propertyName)
          /\ Len(CallsFor(item.propertyName)) = 0

\* an insert that generated some fields next to a null key and a supplied createAt
C1_Witness ==
  /\ subscriber = "role" /\ event.kind = "insert" /\ event.class = "RoleUser"
  /\ Get(event.before, "id") = Null /\ Get(event.entity, "id") = Null
  /\ Get(event.before, "createAt") = "Y"
  /\ event.error = "none" /\ Len(event.calls) = 3

\* C2: buildColumn listener, pre-insert: a field built with trigger create or
\* createAndUpdate, primary-key fields included, that holds a defined value before
\* the insert holds the same value afterwards, and its generator was not invoked.
C2_BuildCallerValueWins ==
  (subscriber = "build" /\ event.kind = "insert") =>
    \A i \in 1..Len(EventColumns) :
      LET item == EventColumns[i] IN
        (TriggerOf(item) \in {"create", "createAndUpdate"}
           /\ ~WasUnset(item.propertyName)) =>
          /\ Untouched(item.propertyName)
          /\ Len(CallsFor(item.propertyName)) = 0

\* C3: role-based listener, sequential primary generator installed by
\* setPrimaryGlobalColumn: the n-th insert of an entity whose PrimaryColumn field
\* is unset ends with id = g_n, the generator invoked once for it, and every
\* field the caller set unchanged.
C3_RoleSequentialIds ==
  (/\ subscriber = "role" /\ event.kind = "insert" /\ event.error = "none"
   /\ event.class = "RoleUser"
   /\ event.policy.primary.transformer.generate = "nextId"
   /\ WasUnset("id")) =>
    /\ Get(event.entity, "id") = NthId(nGenerated)
    /\ Len(CallsFor("id")) = 1
    /\ idSeq = event.idSeqBefore + 1
    /\ \A k \in DOMAIN event.before : event.entity[k] = event.before[k]

\* the second insert that generated its key
C3_Witness ==
  /\ subscriber = "role" /\ event.kind = "insert" /\ event.error = "none"
  /\ event.class = "RoleUser" /\ WasUnset("id")
  /\ nGenerated = 2 /\ Get(event.entity, "id") = "id_1"
  /\ Get(event.before, "name") = "Alice" /\ Get(event.entity, "name") = "Alice"

\* C4: buildColumn listener, a primary-key column with trigger create and a
\* sequential generator: the n-th insert of an entity with the id unset ends with
\* id = g_n and the caller's fields unchanged.
C4_BuildSequentialIds ==
  (/\ subscriber = "build" /\ event.kind = "insert" /\ event.error = "none"
   /\ event.class = "BuildUser"
   /\ WasUnset("id")) =>
    /\ Get(event.entity, "id") = NthId(nGenerated)
    /\ \A k \in DOMAIN event.before : event.entity[k] = event.before[k]

\* C5 as stated: role-based pre-insert invokes a generator for an unset field
\* exactly when its role is primary, create-timestamp or create-actor, the field
\* then holding the returned value; an unset update-timestamp or update-actor
\* field is still undefined afterwards.
C5_InsertFillsCreateRolesOnly ==
  (subscriber = "role" /\ event.kind = "insert" /\ event.error = "none") =>
    \A i \in 1..Len(EventColumns) :
      LET item == EventColumns[i] IN
        WasUnset(item.propertyName) =>
          IF RoleOf(item) \in {"primaryColumn", "createAtColumn", "createIdColumn"}
          THEN FilledOnce(item.propertyName)
          ELSE /\ Len(CallsFor(item.propertyName)) = 0
               /\ Get(event.entity, item.propertyName) = Undef

\* C5 as amended: a role-based pre-insert that completes invokes a generator for
\* an unset field exactly when the field carries one of the five roles (the
\* primary role on a column of the primary-column list), once, the field then
\* holding the returned value; an unset field without a role is still undefined.
C5_InsertFillsEveryRole ==
  (subscriber = "role" /\ event.kind = "insert" /\ event.error = "none") =>
    \A i \in 1..Len(EventColumns) :
      LET item == EventColumns[i] IN
        WasUnset(item.propertyName) =>
          IF \/ RoleOf(item) \in Roles \ {"primaryColumn"}
             \/ RoleOf(item) = "primaryColumn" /\ item.isPrimary
          THEN FilledOnce(item.propertyName)
          ELSE /\ Len(CallsFor(item.propertyName)) = 0
               /\ Get(event.entity, item.propertyName) = Undef

\* an insert of { name } alone: all five role fields generated, in the handler's order
C5_Witness ==
  /\ subscriber = "role" /\ event.kind = "insert" /\ event.error = "none"
  /\ event.class = "RoleUser" /\ DOMAIN event.before = {"name"}
  /\ Len(event.calls) = 5
  /\ event.calls[2].propertyName = "updateAt"
  /\ event.calls[5].propertyName = "id"
  /\ Get(event.entity, "updateId") = "user_1"

\* C6: both listeners, pre-update: a generator is invoked for an unset field
\* exactly when the field is update-oriented (roles update-timestamp and
\* update-actor; triggers update and createAndUpdate); unset primary, create-role
\* and create-only fields stay undefined; a field the payload omits counts as
\* unset; an event without entity invokes nothing and mutates nothing.
C6_UpdateFillsUpdateOriented ==
  (event.kind = "update") =>
    IF ~event.hasEntity
    THEN event.calls = << >> /\ event.entity = event.before /\ event.error = "none"
    ELSE event.error = "none" =>
           \A i \in 1..Len(EventColumns) :
             LET item == EventColumns[i] IN
               WasUnset(item.propertyName) =>
                 IF \/ RoleOf(item) \in {"updateAtColumn", "updateIdColumn"}
                    \/ TriggerOf(item) \in {"update", "createAndUpdate"}
                 THEN FilledOnce(item.propertyName)
                 ELSE /\ Len(CallsFor(item.propertyName)) = 0
                      /\ Get(event.entity, item.propertyName) = Undef

\* a partial update { name: 'Alice' } of the test's User: updateAt generated, the
\* omitted id and createAt left undefined
C6_Witness ==
  /\ subscriber = "build" /\ event.kind = "update" /\ event.hasEntity
  /\ event.class = "BuildUser" /\ DOMAIN event.before = {"name"}
  /\ DOMAIN event.entity = {"name", "updateAt"}
  /\ Len(event.calls) = 1

NotConfiguredErrors ==
  {"Not implemented, please setPrimaryGlobalColumn first",
   "Not implemented, please userIdGlobalColumn first"}

\* every field of the event's entity whose role is in `roles` was supplied
AllSupplied(roles) ==
  \A i \in 1..Len(EventColumns) :
    RoleOf(EventColumns[i]) \in roles => ~WasUnset(EventColumns[i].propertyName)

SomeUnset(roles) ==
  \E i \in 1..Len(EventColumns) :
    RoleOf(EventColumns[i]) \in roles /\ WasUnset(EventColumns[i].propertyName)

\* no generator was invoked for a field whose role is in `roles`
NoCallFor(roles) ==
  \A i \in 1..Len(EventColumns) :
    RoleOf(EventColumns[i]) \in roles => Len(CallsFor(EventColumns[i].propertyName)) = 0

\* the parts of C9 that hold as stated: the default primary and actor-id generators
\* throw on every invocation, the default timestamp generator never does
DefaultGenerators ==
  /\ (event.policy.primary.transformer.generate = "throwSetPrimaryGlobalColumnFirst"
        /\ SomeUnset({"primaryColumn"})) =>
       event.error \in NotConfiguredErrors
  /\ (event.policy.userId.transformer.generate = "throwUserIdGlobalColumnFirst"
        /\ SomeUnset({"createIdColumn"})) =>
       event.error = "Not implemented, please userIdGlobalColumn first"
  /\ event.policy.time.transformer.generate = "newDate" =>
       \A i \in 1..Len(EventColumns) :
         LET item == EventColumns[i] IN
           RoleOf(item) \in {"createAtColumn", "updateAtColumn"} =>
             \A j \in 1..Len(CallsFor(item.propertyName)) :
               CallsFor(item.propertyName)[j].returned = DateValue(event.at)

\* C9 as stated: until a setter supplies a generator the primary and the actor-id
\* generator fail on every invocation, so an insert with the PrimaryColumn or the
\* CreateIdColumn field unset fails, while with those fields supplied it succeeds
\* without invoking the generator; the default timestamp generator never fails
\* and returns the current instant.
C9_UnconfiguredGenerators ==
  (subscriber = "role" /\ event.kind = "insert") =>
    /\ DefaultGenerators
    /\ AllSupplied({"primaryColumn", "createIdColumn"}) =>
         /\ event.error = "none"
         /\ NoCallFor({"primaryColumn", "createIdColumn"})

\* C9 as amended: the same, the insert succeeding when every PrimaryColumn,
\* CreateIdColumn and UpdateIdColumn field is supplied (pre-insert fills an unset
\* UpdateIdColumn field from the same actor-id generator).
C9_UnconfiguredGeneratorsAllActorFields ==
  (subscriber = "role" /\ event.kind = "insert") =>
    /\ DefaultGenerators
    /\ AllSupplied({"primaryColumn", "createIdColumn", "updateIdColumn"}) =>
         /\ event.error = "none"
         /\ NoCallFor({"primaryColumn", "createIdColumn", "updateIdColumn"})

\* nothing configured: an insert that supplies the key and both actor ids succeeds,
\* its two timestamps generated by the default generator
C9_Witness ==
  /\ subscriber = "role" /\ event.kind = "insert" /\ event.class = "RoleUser"
  /\ event.policy = InitPolicy
  /\ DOMAIN event.before = {"id", "createId", "updateId"}
  /\ event.error = "none"
  /\ Len(event.calls) = 2
  /\ Get(event.entity, "createAt") = DateValue(event.at)

----------------------------------------------------------------------------
(* C7: timestamps of a stored row *)

TimeBased(fn) == ResolveGenerate(event.policy, fn) \in {"newDate", "dayjs"}

\* C7: with a time-based generator and a clock that moves on between events, an
\* update whose payload leaves the update timestamp undefined stores an update
\* timestamp that differs from the one stored before (so two successive updates
\* store two distinct ones) and from the stored create timestamp, which the
\* update leaves as it was.
C7_UpdateTimestampMoves ==
  (/\ event.kind = "update" /\ event.error = "none"
   /\ WasUnset("updateAt")
   /\ \A i \in 1..Len(EventColumns) :
        EventColumns[i].propertyName = "updateAt" =>
          TimeBased(Get(EventColumns[i].transformer, "generate"))) =>
    /\ Get(row, "updateAt") # Undef
    /\ Get(row, "updateAt") # Get(event.rowBefore, "updateAt")
    /\ Get(row, "updateAt") # Get(row, "createAt")
    /\ Get(row, "createAt") = Get(event.rowBefore, "createAt")
    /\ Get(row, "createAt") # Undef

\* the second update in a row of a saved { name: 'Alice' }: three instants stored
\* over time, the create timestamp still the first
C7_Witness ==
  /\ event.kind = "update" /\ event.error = "none" /\ WasUnset("updateAt")
  /\ now = 2
  /\ Get(row, "createAt") = DateValue(0)
  /\ Get(event.rowBefore, "updateAt") = DateValue(1)
  /\ Get(row, "updateAt") = DateValue(2)
  /\ Get(row, "name") = "Bob"

----------------------------------------------------------------------------
(* C8: the policy setters *)

\* type and length of the policy set last: the supplied value, else the old one
TypeAndLengthMerged ==
  LET custom == lastSet.custom
      old == lastSet.before[lastSet.setter]
      new == policy[lastSet.setter]
  IN  /\ new.type = IF "type" \in DOMAIN custom THEN custom.type ELSE old.type
      /\ new.length = IF "length" \in DOMAIN custom THEN custom.length ELSE old.length

\* each transform function of the policy set last: the supplied one, else the old one
TransformerMerged ==
  LET custom == lastSet.custom
      old == lastSet.before[lastSet.setter]
      new == policy[lastSet.setter]
  IN  \A f \in TransformerKeys :
        Get(new.transformer, f) =
          IF "transformer" \in DOMAIN custom /\ f \in DOMAIN custom.transformer
          THEN custom.transformer[f]
          ELSE Get(old.transformer, f)

\* the transformer of the policy set last: the supplied object as it is (a function
\* it lacks is undefined afterwards), else the old one
TransformerReplaced ==
  LET custom == lastSet.custom
      old == lastSet.before[lastSet.setter]
      new == policy[lastSet.setter]
  IN  \A f \in TransformerKeys :
        Get(new.transformer, f) =
          IF "transformer" \in DOMAIN custom
          THEN Get(custom.transformer, f)
          ELSE Get(old.transformer, f)

OtherPoliciesKept ==
  \A r \in {"primary", "userId", "time"} \ {lastSet.setter} :
    policy[r] = lastSet.before[r]

\* C8 as stated: each of the three setters, called with any subset of type, length,
\* generator, outbound and inbound transform, changes exactly the supplied
\* attributes of its policy and leaves the others, and the other policies, unchanged.
C8_SettersMergeEveryAttribute ==
  lastSet.setter # "none" =>
    TypeAndLengthMerged /\ TransformerMerged /\ OtherPoliciesKept

\* C8 as amended: setPrimaryGlobalColumn and setUserIdGlobalColumn do so;
\* setTimeGlobalColumn does so for type, length and the transformer taken as a
\* whole: a supplied transformer replaces all three functions at once.
C8_SettersMerge ==
  lastSet.setter # "none" =>
    /\ TypeAndLengthMerged
    /\ OtherPoliciesKept
    /\ IF lastSet.setter = "time" THEN TransformerReplaced ELSE TransformerMerged

\* a second call that supplies length and the outbound transform alone, after a
\* first call changed the generator: generator, inbound transform and type are kept
C8_Witness ==
  /\ lastSet.setter = "primary" /\ lastSet.calls = 2
  /\ DOMAIN lastSet.custom = {"length", "transformer"}
  /\ DOMAIN lastSet.custom.transformer = {"to"}
  /\ policy.primary.transformer =
       [generate |-> "dayjs", to |-> "dayjsToISOString", from |-> "identity"]
  /\ policy.primary.type = "varchar" /\ policy.primary.length = 100

----------------------------------------------------------------------------
(* C10: type inference of the connection provisioner *)

HasPrefix(url, prefix) ==
  url # Undef /\ Len(url) >= Len(prefix) /\ SubSeq(url, 1, Len(prefix)) = prefix

\* type inferred, url and database path as the scheme prescribes
Inferred(type, prefix, stripped) ==
  /\ conn.options.type = type
  /\ IF stripped
     THEN /\ prefix \o conn.options.url = conn.config.url
          /\ conn.options.database = conn.options.url
     ELSE conn.options.url = conn.config.url

\* C10: with the effective type unset, postgresql:// gives postgres and mysql://
\* gives mysql, the url unchanged; sqlite:, better-sqlite3: and file: give sqlite,
\* better-sqlite3 and sqlite, exactly the prefix removed and the rest used as the
\* database path; any other url, or none, leaves type unset and url unchanged;
\* with the effective type set, neither type nor url is altered.
C10_TypeInference ==
  conn.phase = "built" =>
    LET type == conn.config.type
        url == conn.config.url
    IN  IF type # Undef
        THEN conn.options.type = type /\ conn.options.url = url
        ELSE CASE HasPrefix(url, "postgresql://") -> Inferred("postgres", "postgresql://", FALSE)
               [] HasPrefix(url, "mysql://") -> Inferred("mysql", "mysql://", FALSE)
               [] HasPrefix(url, "sqlite:") -> Inferred("sqlite", "sqlite:", TRUE)
               [] HasPrefix(url, "better-sqlite3:") ->
                    Inferred("better-sqlite3", "better-sqlite3:", TRUE)
               [] HasPrefix(url, "file:") -> Inferred("sqlite", "file:", TRUE)
               [] OTHER -> conn.options.type = Undef /\ conn.options.url = url

\* { url: 'better-sqlite3:./b.db' } with no type anywhere
C10_Witness ==
  /\ conn.phase = "built"
  /\ conn.config.type = Undef
  /\ conn.config.url = "better-sqlite3:./b.db"
  /\ conn.options.type = "better-sqlite3"
  /\ conn.options.url = "./b.db"
  /\ conn.options.database = "./b.db"

----------------------------------------------------------------------------
(* C11: option normalisation of the connection provisioner *)

\* the caller supplied a value: the key is there and holds something
Supplied(opts, key) == key \in DOMAIN opts /\ opts[key] # Undef

\* the fallback the environment gives for an option
EnvFallback(env, key) ==
  CASE key = "type" -> OrUndefined(Get(env, "DATABASE_TYPE"))
    [] key = "url" -> OrUndefined(Get(env, "DATABASE_URL"))
    [] key = "synchronize" ->
         IF Get(env, "DATABASE_SYNCHRONIZE") = "true" THEN "true" ELSE "false"

\* C11: for type, url and synchronize the effective value is the caller's option
\* when the caller supplied a value and else the environment's fallback, an
\* option counting as unset when its key is absent and also when the key is
\* present with the value undefined.
C11_OptionNormalisation ==
  conn.phase = "built" =>
    \A key \in {"type", "url", "synchronize"} :
      conn.config[key] = IF Supplied(conn.opts, key)
                         THEN conn.opts[key]
                         ELSE EnvFallback(conn.env, key)

\* the part that holds: an absent key falls back, a key that is present wins,
\* with whatever it holds
C11_PresentKeyWins ==
  conn.phase = "built" =>
    \A key \in {"type", "url", "synchronize"} :
      conn.config[key] = IF key \in DOMAIN conn.opts
                         THEN conn.opts[key]
                         ELSE EnvFallback(conn.env, key)

----------------------------------------------------------------------------
(* C12, C20: the subscriber list after createTypeormMiddleware *)

\* the subscribers the caller configured, in the caller's order
CallerSubscribers ==
  IF app.mode = "datasource" THEN app.given.items
  ELSE IF "subscribers" \in DOMAIN app.given THEN app.given.subscribers
  ELSE << >>

\* C12: after one call of createTypeormMiddleware the connection's subscriber list
\* is the auto-fill listener at position 0 followed by exactly the caller's
\* subscribers in their order, for options and for a pre-built connection, whose
\* own subscriber configuration is never discarded.
C12_ListenerPrepended ==
  Len(made) = 1 => SubscribersOf(1) = <<AutoFill>> \o CallerSubscribers

\* k copies of the auto-fill listener
RECURSIVE Copies(_)
Copies(k) == IF k = 0 THEN << >> ELSE <<AutoFill>> \o Copies(k - 1)

\* C20: k calls with the same pre-built connection whose subscriber list was S
\* leave it with k copies of the auto-fill listener followed by S in its order;
\* with options every call builds a connection of its own with exactly one
\* auto-fill listener in front of S, and the caller's options object and its
\* subscribers array stay as they were.
C20_NotIdempotentOnDataSource ==
  /\ (app.mode = "datasource" /\ app.given.kind # "map") =>
       /\ IF Len(made) = 0
          THEN app.ds.subscribers = app.given
          ELSE app.ds.subscribers = ArrayOf(Copies(Len(made)) \o CallerSubscribers)
       /\ \A i \in 1..Len(made) : made[i].orm = "ds"
  /\ app.mode = "options" =>
       /\ \A i \in 1..Len(made) :
            /\ made[i].fresh
            /\ made[i].options.subscribers = <<AutoFill>> \o CallerSubscribers
            /\ \A j \in 1..Len(made) : made[i].orm = made[j].orm => i = j
       /\ app.opts = app.given

\* three calls with a DataSource of subscribers [S1, S2]
C20_Witness ==
  /\ app.mode = "datasource" /\ app.given = ArrayOf(<<"S1", "S2">>)
  /\ Len(made) = 3
  /\ app.ds.subscribers.items = <<AutoFill, AutoFill, AutoFill, "S1", "S2">>

----------------------------------------------------------------------------
(* C13: a request through typeormMiddleware *)

\* C13: the connection returned as `orm` is in the request's context under 'orm'
\* before the next handler starts; the next handler is invoked exactly once; the
\* middleware completes only after the next handler has, and with the very error
\* the next handler raised, if any; every request of a middleware, interleaved or
\* not, sees the same connection.
C13_MiddlewareAttachesThenNext ==
  \A r \in Requests :
    LET q == requests[r] IN
      /\ q.pc = "idle" => q.nextCalls = 0 /\ q.outcome = "pending"
      /\ q.pc # "idle" =>
           /\ q.middleware \in 1..Len(made)
           /\ q.ormAtNext = made[q.middleware].orm
           /\ q.orm = made[q.middleware].orm
           /\ q.nextCalls = 1
      /\ q.outcome # "pending" => q.pc = "done" /\ q.next # "none"
      /\ q.pc = "done" =>
           q.outcome = (IF q.next = "returned" THEN "fulfilled" ELSE q.next)
      /\ \A r2 \in Requests :
           (q.pc # "idle" /\ requests[r2].pc # "idle"
              /\ requests[r2].middleware = q.middleware) =>
             requests[r2].orm = q.orm

\* two interleaved requests of one middleware: one failed downstream and left the
\* middleware with that error while the other is still in its next handler
C13_Witness ==
  /\ requests["r1"].pc = "next" /\ requests["r2"].pc = "done"
  /\ requests["r1"].middleware = requests["r2"].middleware
  /\ requests["r2"].next = "Error(downstream)"
  /\ requests["r2"].outcome = "Error(downstream)"
  /\ requests["r1"].orm = "inst_1" /\ requests["r2"].orm = "inst_1"

----------------------------------------------------------------------------
(* C15, C16, C17, C19: failures, asynchronous generators and the frame *)

\* the column of the event's entity class with this property name
ColumnNamed(propertyName) ==
  LET i == CHOOSE i \in 1..Len(EventColumns) :
             EventColumns[i].propertyName = propertyName
  IN  EventColumns[i]

\* the error the generator of a field throws under the policies of the event
ThrownBy(propertyName) ==
  Invoke(event.policy, event.at, event.idSeqBefore,
         Get(ColumnNamed(propertyName).transformer, "generate")).error

\* C15: a generator that fails during pre-insert or pre-update fails the handler
\* with that same error, no generator is invoked after it, and the write of the
\* event is not issued.
C15_GeneratorFailureFailsEvent ==
  event.kind \in {"insert", "update"} =>
    LET n == Len(event.calls) IN
      /\ \A j \in 1..n :
           event.calls[j].returned = "<throws>" =>
             /\ j = n
             /\ event.error # "none"
             /\ event.error = ThrownBy(event.calls[j].propertyName)
      /\ event.error # "none" =>
           /\ n > 0 /\ event.calls[n].returned = "<throws>"
           /\ row = event.rowBefore

\* an update of a stored row that generated the update timestamp and then failed
\* on the actor id: the row is as it was
C15_Witness ==
  /\ event.kind = "update" /\ event.class = "RoleUser"
  /\ event.error = "Not implemented, please userIdGlobalColumn first"
  /\ Len(event.calls) = 2 /\ event.calls[1].propertyName = "updateAt"
  /\ row # NoEntity /\ row = event.rowBefore

\* a promise: the placeholder of a value that is delivered later
IsPromise(v) == Len(v) >= 8 /\ SubSeq(v, 1, 8) = "Promise("

\* C16: the handler completes every generator call, asynchronous ones included,
\* before the write: a generated field holds the delivered value, not a pending
\* placeholder, when the handler finishes and when the row is written.
C16_GeneratedValuesDelivered ==
  (event.kind \in {"insert", "update"} /\ event.error = "none") =>
    /\ \A j \in 1..Len(event.calls) :
         ~IsPromise(Get(event.entity, event.calls[j].propertyName))
    /\ \A k \in DOMAIN row : ~IsPromise(row[k])

\* the calls made for a field before the last call of the event
EarlierCallsFor(propertyName) ==
  SelectSeq(SubSeq(event.calls, 1, Len(event.calls) - 1),
            LAMBDA c : c.propertyName = propertyName)

\* C17: when the generator of the k-th processed column fails, the entity keeps
\* the values generated in that event for the columns processed before, and every
\* unset column processed after it, like the k-th itself, is still undefined.
C17_NoRollback ==
  (event.kind \in {"insert", "update"} /\ event.error # "none") =>
    \A i \in 1..Len(EventColumns) :
      LET name == EventColumns[i].propertyName
          earlier == EarlierCallsFor(name)
      IN  IF Len(earlier) > 0
          THEN Get(event.entity, name) = earlier[Len(earlier)].returned
          ELSE Untouched(name)

\* an insert by the buildColumn listener: code generated, then owner's generator
\* throws; code is kept, the update timestamp after it is still undefined
C17_Witness ==
  /\ subscriber = "build" /\ event.kind = "insert" /\ event.class = "BuildAudit"
  /\ event.error = "Error: no session"
  /\ WasUnset("code") /\ Get(event.entity, "code") = "X"
  /\ WasUnset("updateAt") /\ Get(event.entity, "updateAt") = Undef
  /\ Len(event.calls) = 2

\* the column carries the auto-fill tag the registered listener looks for
Tagged(item) ==
  IF subscriber = "role" THEN RoleOf(item) \in Roles ELSE TriggerOf(item) # "none"

TaggedNames ==
  { EventColumns[i].propertyName : i \in { j \in 1..Len(EventColumns) :
                                             Tagged(EventColumns[j]) } }

\* C19: pre-insert and pre-update never change a field whose column carries no
\* auto-fill tag and never add or remove another property of the entity;
\* post-load changes nothing, with or without a load event.
C19_ListenerFrame ==
  /\ event.kind \in {"insert", "update"} =>
       /\ \A k \in (DOMAIN event.before \cup DOMAIN event.entity) \ TaggedNames :
            /\ k \in DOMAIN event.before /\ k \in DOMAIN event.entity
            /\ event.entity[k] = event.before[k]
            /\ Len(CallsFor(k)) = 0
       /\ DOMAIN event.before \subseteq DOMAIN event.entity
  /\ event.kind = "load" =>
       /\ event.entity = event.before
       /\ event.calls = << >> /\ event.error = "none"

\* the role-based listener inserting { memo } of an entity with a buildColumn
\* field: the actor id is generated, the buildColumn field and memo are left alone
C19_Witness ==
  /\ subscriber = "role" /\ event.kind = "insert" /\ event.class = "RoleMixed"
  /\ event.before = [memo |-> "Y"]
  /\ event.entity = [memo |-> "Y", createId |-> "user_1"]

----------------------------------------------------------------------------
(* C14: validation in buildColumn *)

\* no handler of the buildColumn listener fills the field of an entity that
\* leaves every field unset
NeverFilled(propertyName) ==
  LET metadata == EntityMetadata(storage.columns)
      inserted == beforeInsert("build", metadata, NoEntity, now)
      updated == beforeUpdate("build", metadata, TRUE, NoEntity, now)
  IN  /\ Get(inserted.entity, propertyName) = Undef
      /\ Get(updated.entity, propertyName) = Undef
      /\ \A j \in 1..Len(inserted.calls) : inserted.calls[j].propertyName # propertyName
      /\ \A j \in 1..Len(updated.calls) : updated.calls[j].propertyName # propertyName

\* C14: buildColumn fails with a configuration error when exactly one of
\* generateTrigger and generate is supplied, and then no column is registered;
\* with both or neither it does not fail and the annotation registers exactly one
\* column for the field, one that is never auto-filled when neither was supplied.
C14_BuildColumnValidation ==
  storage.last.decorator = "buildColumn" =>
    LET opts == storage.last.opts
        hasTrigger == "generateTrigger" \in DOMAIN opts
        hasGenerate == "generate" \in DOMAIN opts
    IN  IF hasTrigger # hasGenerate
        THEN /\ storage.last.error \in
                  {"generate is required when generateTrigger is set",
                   "generateTrigger is required when generate is set"}
             /\ storage.columns = storage.last.before
        ELSE /\ storage.last.error = "none"
             /\ Len(storage.columns) = Len(storage.last.before) + 1
             /\ SubSeq(storage.columns, 1, Len(storage.last.before)) = storage.last.before
             /\ storage.columns[Len(storage.columns)].propertyName
                  = storage.last.propertyName
             /\ (~hasTrigger /\ ~hasGenerate) => NeverFilled(storage.last.propertyName)

\* a generator without a trigger on the second field: the error, and the storage
\* still holding the first field's column alone
C14_Witness ==
  /\ storage.last.decorator = "buildColumn"
  /\ DOMAIN storage.last.opts = {"generate"}
  /\ storage.last.error = "generateTrigger is required when generate is set"
  /\ Len(storage.columns) = 1 /\ storage.columns = storage.last.before

----------------------------------------------------------------------------
(* C18: late binding of the role policies *)

\* the policy a role decorator reads
PolicyOfRole(role) ==
  CASE role = "primaryColumn" -> "primary"
    [] role \in {"createAtColumn", "updateAtColumn"} -> "time"
    [] role \in {"createIdColumn", "updateIdColumn"} -> "userId"

\* what the generator installed in the role's policy when the event is handled
\* gives: its value, or "<throws>"
InstalledGives(item) ==
  LET installed == event.policy[PolicyOfRole(RoleOf(item))].transformer.generate
      r == Invoke(event.policy, event.at, event.idSeqBefore, installed)
  IN  IF r.error = "none" THEN r.value ELSE "<throws>"

\* C18: the generator invoked for a role field is the one installed in the policy
\* when the event is handled, also when a setter installed it after the field was
\* annotated; the type and length of a registered column are those the policy had
\* when the field was annotated, whatever a setter sets afterwards.
C18_LateBinding ==
  /\ (event.class = "Article" /\ event.kind \in {"insert", "update"}) =>
       \A j \in 1..Len(event.calls) :
         event.calls[j].returned = InstalledGives(ColumnNamed(event.calls[j].propertyName))
  /\ storage.last.decorator \notin {"none", "buildColumn"} =>
       \A i \in 1..Len(storage.columns) :
         LET column == storage.columns[i]
             at == storage.policyAt[i][PolicyOfRole(column.options.transformer.type)]
         IN  /\ column.options.type = at.type
             /\ column.options.length = at.length

\* setTimeGlobalColumn called twice after createAt was annotated, with type and
\* length and with a dayjs generator: the insert generates a Dayjs, the column
\* registered for createAt is still varchar(50)
C18_Witness ==
  /\ event.class = "Article" /\ event.kind = "insert" /\ event.error = "none"
  /\ storage.policyAt[2] = InitPolicy
  /\ WasUnset("createAt") /\ Get(event.entity, "createAt") = "Dayjs(0)"
  /\ policy.time.type = "timestamp" /\ policy.time.length = 100
  /\ storage.columns[2].options.type = "varchar"
  /\ storage.columns[2].options.length = 50

====
